---- MODULE Spec2Model ----
(***************************************************************************)
(* sdoc.py: a Document is the root of a tree of blocks.  Containers        *)
(* (Document, Row, Col, Card) keep an ordered list _blocks; add_block runs *)
(* the child's pre_add_hook, appends, and (Document only, when autosave is *)
(* set) saves.  save opens the destination for writing and writes the      *)
(* render of the tree.  A TOC keeps a reference to the _blocks list of the *)
(* Document it was added to and scans it for H1/H2/H3 when rendered.       *)
(*                                                                         *)
(* Objects are named by strings; rendered HTML is a sequence of tokens.    *)
(***************************************************************************)
EXTENDS Integers, Sequences, FiniteSets, TLC

VARIABLES
    title,         \* Document.title, per Document
    autosave,      \* Document.autosave, per Document
    destination,   \* Document.destination, per Document (None or a path)
    theme,         \* Document.theme, per Document
    custom_css,    \* Document.custom_css, per Document (None or a text)
    blocks,        \* the _blocks list of every Document, Row, Col and Card
    document_blocks, \* TOC._document_blocks, per TOC
    hooks,         \* per object: how many times its pre_add_hook ran and returned
    files,         \* the file system: per path, whether it exists and its data
    writes,        \* log of the completed f.write calls of Document.save
    current_document, \* the module global _current_document (None or a Document)
    lastOp,        \* the last call of the client, its arguments and its outcome
    retval,        \* what the last call returned: the tokens of a render, the
                   \* Document of get_current_document, else nothing
    left           \* calls the client still makes

vars == <<title, autosave, destination, theme, custom_css, blocks, document_blocks,
          hooks, files, writes, current_document, lastOp, retval, left>>

\* ---------------------------------------------------------------- bounds

\* Calls made by the client in Spec.
MaxOps == 4
\* Calls made by the client in SpecAttach.
MaxAttachOps == 3
\* Longest top-level sequence the document of SpecScan starts with.
MaxScanLen == 4
\* Calls made by the client in SpecScan.
MaxScanOps == 1
\* Calls made by the client in SpecRegistry.
MaxRegistryOps == 4
\* Calls made by the client in SpecRender.
MaxRenderOps == 3
\* Calls made by the client in SpecTheme.
MaxThemeOps == 2

\* ---------------------------------------------------------------- objects

None == "None"

\* The objects a client constructs.  d1, d2: Document; row: Row; col: Col;
\* card: Card(); toc: TOC(); hA: H1("A"); hB: H2("B"); hC: H3("C");
\* hS: H4("skip"); h5: H5("five"); h6: H6("six"); p: Paragraph("hi");
\* hN: H1("N"); cardT: Card("T", "body").  g1, g2: the Documents that
\* get_current_document constructs.
ClassOf(b) ==
    CASE b \in {"d1", "d2", "g1", "g2"} -> "Document"
      [] b = "row"  -> "Row"
      [] b = "col"  -> "Col"
      [] b \in {"card", "cardT"} -> "Card"
      [] b = "toc"  -> "TOC"
      [] b \in {"hA", "hN"} -> "H1"
      [] b = "hB"   -> "H2"
      [] b = "hC"   -> "H3"
      [] b = "hS"   -> "H4"
      [] b = "h5"   -> "H5"
      [] b = "h6"   -> "H6"
      [] b = "p"    -> "Paragraph"

\* The text attribute of the heading and paragraph objects.
TextOf(b) ==
    CASE b = "hA" -> "A"
      [] b = "hB" -> "B"
      [] b = "hC" -> "C"
      [] b = "hS" -> "skip"
      [] b = "h5" -> "five"
      [] b = "h6" -> "six"
      [] b = "hN" -> "N"
      [] b = "p"  -> "hi"
      [] OTHER    -> ""

\* Card.title and Card.content.
CardTitleOf(b) == IF b = "cardT" THEN "T" ELSE None
CardContentOf(b) == IF b = "cardT" THEN "body" ELSE None

\* The defaults of Document.__init__.
DefaultDocument ==
    [title |-> "My Report", destination |-> None, autosave |-> FALSE,
     theme |-> "default", custom_css |-> None]

\* self.title, self.theme, self.custom_css, self.destination, self.autosave.
\* A Document constructed within the running call is not yet in the state
\* and has the attributes of Document().
TitleOf(d) == IF d \in DOMAIN title THEN title[d] ELSE DefaultDocument.title
ThemeOf(d) == IF d \in DOMAIN theme THEN theme[d] ELSE DefaultDocument.theme
CustomCssOf(d) == IF d \in DOMAIN custom_css THEN custom_css[d] ELSE DefaultDocument.custom_css
DestinationOf(d) == IF d \in DOMAIN destination THEN destination[d] ELSE DefaultDocument.destination
AutosaveOf(d) == IF d \in DOMAIN autosave THEN autosave[d] ELSE DefaultDocument.autosave

\* Classes with a _blocks list and an add_block method.
ContainerClasses == {"Document", "Row", "Col", "Card"}

Objs == DOMAIN hooks
Containers == DOMAIN blocks
Docs == DOMAIN autosave
TOCs == DOMAIN document_blocks

\* The paths a client uses: the stored destination and an explicit one.
StoredPath == "report.html"
ExplicitPath == "out.html"
Paths == {StoredPath, ExplicitPath}

Range(s) == {s[i] : i \in 1..Len(s)}

\* ---------------------------------------------------------------- the tree

Children(bl, b) == IF b \in DOMAIN bl THEN Range(bl[b]) ELSE {}

RECURSIVE Closure(_, _)
Closure(bl, S) ==
    LET N == S \cup UNION {Children(bl, c) : c \in S}
    IN IF N = S THEN S ELSE Closure(bl, N)

\* Every block below b.
Descendants(bl, b) == Closure(bl, Children(bl, b))

\* A container that is below itself: Block.render recurses without end and
\* the interpreter raises RecursionError.
Cyclic(bl, b) == \E c \in {b} \cup Descendants(bl, b) : c \in Descendants(bl, c)

\* ---------------------------------------------------------------- TOC

NoRef == [kind |-> "none", of |-> None, seq |-> <<>>]

\* A copy of the list taken at attach time.
TOCBindCopy(bl, parent) == [kind |-> "copy", of |-> parent, seq |-> bl[parent]]

\* self._document_blocks = parent._blocks : the list object itself.
TOCBind(bl, parent) == [kind |-> "ref", of |-> parent, seq |-> <<>>]

\* The list a value of _document_blocks denotes in the heap bl.
Deref(bl, r) == IF r.kind = "ref" THEN bl[r.of] ELSE r.seq

\* The isinstance chain extended to H4.
HeaderEntryUpToH4(b) ==
    IF ClassOf(b) = "H1" THEN <<<<1, TextOf(b)>>>>
    ELSE IF ClassOf(b) = "H2" THEN <<<<2, TextOf(b)>>>>
    ELSE IF ClassOf(b) = "H3" THEN <<<<3, TextOf(b)>>>>
    ELSE IF ClassOf(b) = "H4" THEN <<<<4, TextOf(b)>>>>
    ELSE <<>>

\* One pass of the loop body of TOC.get_context: what block b appends.
HeaderEntry(b) ==
    IF ClassOf(b) = "H1" THEN <<<<1, TextOf(b)>>>>
    ELSE IF ClassOf(b) = "H2" THEN <<<<2, TextOf(b)>>>>
    ELSE IF ClassOf(b) = "H3" THEN <<<<3, TextOf(b)>>>>
    ELSE <<>>

\* The loop of TOC.get_context over a list.
RECURSIVE HeadingScan(_)
HeadingScan(seq) ==
    IF seq = <<>> THEN <<>>
    ELSE HeaderEntry(Head(seq)) \o HeadingScan(Tail(seq))

\* TOC.get_context()['headers'] of a TOC whose hook has run.
TOCHeaders(bl, tr, t) == HeadingScan(Deref(bl, tr[t]))

\* ---------------------------------------------------------------- render

THEMES == [default |-> "css:default", dark |-> "css:dark"]

\* A lookup that yields no CSS for a name that is no preset.
ThemeCssNoFallback(name) == IF name \in DOMAIN THEMES THEN THEMES[name] ELSE ""

\* self.THEMES.get(self.theme, self.THEMES['default'])
ThemeCss(name) == IF name \in DOMAIN THEMES THEN THEMES[name] ELSE THEMES["default"]

\* self.custom_css or ''
CustomCss(css) == IF css = None \/ css = "" THEN "" ELSE css

\* The head of the Card template: {% if title %}, {% if content %}.
CardHead(b) ==
    (IF CardTitleOf(b) \in {None, ""} THEN <<>> ELSE <<"<h3>", CardTitleOf(b), "</h3>">>)
    \o (IF CardContentOf(b) \in {None, ""} THEN <<>> ELSE <<CardContentOf(b)>>)

\* Block.render of b raises: a cycle below b, or a TOC below b whose hook
\* never ran (no _document_blocks attribute).
RenderRaises(bl, tr, b) ==
    \/ Cyclic(bl, b)
    \/ \E t \in ({b} \cup Descendants(bl, b)) \cap DOMAIN tr : tr[t].kind = "none"

RECURSIVE TOCItems(_)
TOCItems(hs) ==
    IF hs = <<>> THEN <<>>
    ELSE <<"<li><a href=#", Head(hs)[2], ">", Head(hs)[2], "</a></li>">>
         \o TOCItems(Tail(hs))

RECURSIVE Render(_, _, _), RenderAll(_, _, _), RenderAllReversed(_, _, _)
\* The comprehension walking reversed(self._blocks).
RenderAllReversed(bl, tr, seq) ==
    IF seq = <<>> THEN <<>>
    ELSE RenderAllReversed(bl, tr, Tail(seq)) \o Render(bl, tr, Head(seq))

\* [block.render() for block in self._blocks], joined by the template's loop.
RenderAll(bl, tr, seq) ==
    IF seq = <<>> THEN <<>>
    ELSE Render(bl, tr, Head(seq)) \o RenderAll(bl, tr, Tail(seq))

\* Block.render: the class's template filled with its context.
Render(bl, tr, b) ==
    LET c == ClassOf(b) IN
    CASE c = "Document" ->
           <<"<html><title>", TitleOf(b), "</title><style>", ThemeCss(ThemeOf(b)),
             CustomCss(CustomCssOf(b)), "</style><body>">>
           \o RenderAll(bl, tr, bl[b]) \o <<"</body></html>">>
      [] c = "Row"  -> <<"<div class=row>">> \o RenderAll(bl, tr, bl[b]) \o <<"</div>">>
      [] c = "Col"  -> <<"<div class=col>">> \o RenderAll(bl, tr, bl[b]) \o <<"</div>">>
      [] c = "Card" -> <<"<div class=card>">> \o CardHead(b)
                       \o RenderAll(bl, tr, bl[b]) \o <<"</div>">>
      [] c = "TOC"  -> <<"<h1>Table of Contents</h1><ul>">>
                       \o TOCItems(TOCHeaders(bl, tr, b)) \o <<"</ul>">>
      [] c = "H1" -> <<"<h1>", TextOf(b), "</h1>">>
      [] c = "H2" -> <<"<h2>", TextOf(b), "</h2>">>
      [] c = "H3" -> <<"<h3>", TextOf(b), "</h3>">>
      [] c = "H4" -> <<"<h4>", TextOf(b), "</h4>">>
      [] c = "H5" -> <<"<h5>", TextOf(b), "</h5>">>
      [] c = "H6" -> <<"<h6>", TextOf(b), "</h6>">>
      [] c = "Paragraph" -> <<"<p>", TextOf(b), "</p>">>

\* ---------------------------------------------------------------- hooks

\* Block.pre_add_hook: pass.
BlockPreAddHook(bl, tr, b, parent) == [err |-> "ok", tr |-> tr]

\* A Document class that does not override the hook of Block.
DocumentPreAddHookInherited(bl, tr, b, parent) == BlockPreAddHook(bl, tr, b, parent)

\* Document.pre_add_hook: always raises.
DocumentPreAddHook(bl, tr, b, parent) == [err |-> "InvalidOperation", tr |-> tr]

\* A TOC hook without the isinstance check.
TOCPreAddHookAnyParent(bl, tr, b, parent) ==
    [err |-> "ok", tr |-> [tr EXCEPT ![b] = TOCBind(bl, parent)]]

\* TOC.pre_add_hook: raises unless the parent is a Document, else keeps the
\* parent's list.
TOCPreAddHook(bl, tr, b, parent) ==
    IF ClassOf(parent) # "Document"
    THEN [err |-> "InvalidPlacement", tr |-> tr]
    ELSE [err |-> "ok", tr |-> [tr EXCEPT ![b] = TOCBind(bl, parent)]]

\* block.pre_add_hook(parent), dispatched on the class of block.
PreAddHook(bl, tr, b, parent) ==
    CASE ClassOf(b) = "Document" -> DocumentPreAddHook(bl, tr, b, parent)
      [] ClassOf(b) = "TOC"      -> TOCPreAddHook(bl, tr, b, parent)
      [] OTHER                   -> BlockPreAddHook(bl, tr, b, parent)

\* ---------------------------------------------------------------- save

\* The stored destination first, the argument only when none is stored.
ResolveStoredFirst(d, x) == IF destination[d] # None THEN destination[d] ELSE x

\* destination = the argument, or self.destination when the argument is None.
ResolveDestination(d, x) == IF x # None THEN x ELSE DestinationOf(d)

Truncated == [exists |-> TRUE, data |-> <<>>]

\* Document.save(x) on the heap (bl, tr), file system fs and write log ws.
\* open(destination, 'w') creates or truncates the file before self.render()
\* is evaluated; by names the caller ("add" for autosave, "save").
SaveOutcome(bl, tr, fs, ws, d, x, by) ==
    LET dest == ResolveDestination(d, x) IN
    IF dest = None
    THEN [err |-> "MissingDestination", opened |-> None, wrote |-> FALSE,
          files |-> fs, writes |-> ws]
    ELSE IF RenderRaises(bl, tr, d)
    THEN [err |-> IF Cyclic(bl, d) THEN "RecursionError" ELSE "AttributeError",
          opened |-> dest, wrote |-> FALSE,
          files |-> [fs EXCEPT ![dest] = Truncated], writes |-> ws]
    ELSE LET html == Render(bl, tr, d) IN
         [err |-> "ok", opened |-> dest, wrote |-> TRUE,
          files |-> [fs EXCEPT ![dest] = [exists |-> TRUE, data |-> html]],
          writes |-> Append(ws, [doc |-> d, path |-> dest, by |-> by,
                                 n |-> Len(bl[d]), top |-> bl[d], data |-> html])]

NoSave == [err |-> "ok", opened |-> None, wrote |-> FALSE, files |-> files, writes |-> writes]

\* ---------------------------------------------------------------- add_block

\* self._blocks.append(block)
AppendBlock(bl, c, b) == [bl EXCEPT ![c] = Append(@, b)]

\* Document.add_block with the save placed before the append.
DocumentAddSaveFirst(bl, d, b) ==
    LET hk == PreAddHook(bl, document_blocks, b, d)
        ok == hk.err = "ok"
        bl1 == IF ok THEN AppendBlock(bl, d, b) ELSE bl
        sv == IF ok /\ AutosaveOf(d)
              THEN SaveOutcome(bl, hk.tr, files, writes, d, None, "add")
              ELSE NoSave
    IN [hook |-> hk.err, appended |-> ok, saved |-> ok /\ AutosaveOf(d),
        result |-> IF ok THEN sv.err ELSE hk.err,
        blocks |-> bl1, document_blocks |-> hk.tr, save |-> sv]

\* Document.add_block(b) on d in the heap bl: hook, append, then save when
\* autosave is set.  An exception leaves every earlier effect in place.
DocumentAdd(bl, d, b) ==
    LET hk == PreAddHook(bl, document_blocks, b, d)
        ok == hk.err = "ok"
        bl1 == IF ok THEN AppendBlock(bl, d, b) ELSE bl
        sv == IF ok /\ AutosaveOf(d)
              THEN SaveOutcome(bl1, hk.tr, files, writes, d, None, "add")
              ELSE NoSave
    IN [hook |-> hk.err, appended |-> ok, saved |-> ok /\ AutosaveOf(d),
        result |-> IF ok THEN sv.err ELSE hk.err,
        blocks |-> bl1, document_blocks |-> hk.tr, save |-> sv]

\* Row.add_block, Col.add_block, Card.add_block: hook, then append.
ContainerAdd(c, b) ==
    LET hk == PreAddHook(blocks, document_blocks, b, c)
        ok == hk.err = "ok"
    IN [hook |-> hk.err, appended |-> ok, saved |-> FALSE, result |-> hk.err,
        blocks |-> IF ok THEN AppendBlock(blocks, c, b) ELSE blocks,
        document_blocks |-> hk.tr, save |-> NoSave]

\* The state after a call add_block(b) on c with outcome out.
Added(c, b, out) ==
    /\ left > 0
    /\ left' = left - 1
    /\ blocks' = out.blocks
    /\ document_blocks' = out.document_blocks
    /\ hooks' = [hooks EXCEPT ![b] = IF out.hook = "ok" THEN @ + 1 ELSE @]
    /\ files' = out.save.files
    /\ writes' = out.save.writes
    /\ lastOp' = [op |-> "add", target |-> c, arg |-> b, hook |-> out.hook,
                  appended |-> out.appended, saved |-> out.saved,
                  opened |-> out.save.opened, wrote |-> out.save.wrote,
                  result |-> out.result, pre |-> blocks[c],
                  prefiles |-> files, pretoc |-> document_blocks,
                  predocs |-> Docs, precurrent |-> current_document,
                  preblocks |-> blocks]
    /\ retval' = <<>>
    /\ UNCHANGED <<title, autosave, destination, theme, custom_css, current_document>>

DocumentAddBlock(d, b) == ClassOf(d) = "Document" /\ Added(d, b, DocumentAdd(blocks, d, b))

RowAddBlock(c, b) == ClassOf(c) = "Row" /\ Added(c, b, ContainerAdd(c, b))

ColAddBlock(c, b) == ClassOf(c) = "Col" /\ Added(c, b, ContainerAdd(c, b))

CardAddBlock(c, b) == ClassOf(c) = "Card" /\ Added(c, b, ContainerAdd(c, b))

\* Document.save(x) called by the client.
Save(d, x) ==
    /\ left > 0
    /\ left' = left - 1
    /\ LET sv == SaveOutcome(blocks, document_blocks, files, writes, d, x, "save") IN
       /\ files' = sv.files
       /\ writes' = sv.writes
       /\ lastOp' = [op |-> "save", target |-> d, arg |-> x, hook |-> "none",
                     appended |-> FALSE, saved |-> TRUE, opened |-> sv.opened,
                     wrote |-> sv.wrote, result |-> sv.err, pre |-> blocks[d],
                     prefiles |-> files, pretoc |-> document_blocks,
                     predocs |-> Docs, precurrent |-> current_document,
                  preblocks |-> blocks]
    /\ retval' = <<>>
    /\ UNCHANGED <<title, autosave, destination, theme, custom_css, blocks,
                   document_blocks, hooks, current_document>>

\* ---------------------------------------------------------------- specifications

NoFiles == [p \in Paths |-> [exists |-> FALSE, data |-> <<>>]]

\* How often b occurs in the lists of bl.
Occurrences(bl, b) ==
    Cardinality(UNION {{<<c, i>> : i \in {j \in 1..Len(bl[c]) : bl[c][j] = b}} : c \in DOMAIN bl})

\* The state after the client has constructed the objects objs, its
\* Documents with the attributes docs, and has made the add_block calls
\* (none of them failing, none on an autosave Document) that built the
\* lists bl; n calls follow.
ConstructedDocuments(objs, docs, bl, n) ==
    /\ title = [d \in DOMAIN docs |-> docs[d].title]
    /\ autosave = [d \in DOMAIN docs |-> docs[d].autosave]
    /\ destination = [d \in DOMAIN docs |-> docs[d].destination]
    /\ theme = [d \in DOMAIN docs |-> docs[d].theme]
    /\ custom_css = [d \in DOMAIN docs |-> docs[d].custom_css]
    /\ blocks = bl
    /\ document_blocks = [t \in {o \in objs : ClassOf(o) = "TOC"} |-> NoRef]
    /\ hooks = [o \in objs |-> Occurrences(bl, o)]
    /\ files = NoFiles
    /\ writes = <<>>
    /\ current_document = None
    /\ lastOp = [op |-> "init", target |-> None, arg |-> None, hook |-> "none",
                 appended |-> FALSE, saved |-> FALSE, opened |-> None,
                 wrote |-> FALSE, result |-> "ok", pre |-> <<>>,
                 prefiles |-> NoFiles, pretoc |-> document_blocks,
                 predocs |-> DOMAIN docs, precurrent |-> None, preblocks |-> bl]
    /\ retval = <<>>
    /\ left = n

\* The same with Documents that differ from Document() in autosave and
\* destination only.
Constructed(objs, as, ds, bl, n) ==
    ConstructedDocuments(objs,
        [d \in DOMAIN as |-> [DefaultDocument EXCEPT !.autosave = as[d],
                                                     !.destination = ds[d]]],
        bl, n)

Empty(objs) == [c \in {o \in objs : ClassOf(o) \in ContainerClasses} |-> <<>>]

\* Spec: d1 = Document(destination=.., autosave=..), d2 = Document(),
\* card = Card(), toc = TOC(), hA = H1("A").
MainObjs == {"d1", "d2", "card", "toc", "hA"}

Init ==
    \E a \in BOOLEAN, s \in {None, StoredPath} :
        Constructed(MainObjs, [d \in {"d1", "d2"} |-> IF d = "d1" THEN a ELSE FALSE],
                    [d \in {"d1", "d2"} |-> IF d = "d1" THEN s ELSE None],
                    Empty(MainObjs), MaxOps)

Next ==
    \/ \E d \in Docs, b \in Objs : DocumentAddBlock(d, b)
    \/ \E c \in Containers, b \in Objs : CardAddBlock(c, b)
    \/ \E d \in Docs, x \in {None, ExplicitPath} : Save(d, x)

Spec == Init /\ [][Next]_vars

\* SpecAttach: every container class; d1 = Document(autosave=..), d2 = Document().
AttachObjs == {"d1", "d2", "row", "col", "card", "toc"}

InitAttach ==
    \E a \in BOOLEAN :
        Constructed(AttachObjs, [d \in {"d1", "d2"} |-> IF d = "d1" THEN a ELSE FALSE],
                    [d \in {"d1", "d2"} |-> None], Empty(AttachObjs), MaxAttachOps)

NextAttach ==
    \/ \E d \in Docs, b \in Objs : DocumentAddBlock(d, b)
    \/ \E c \in Containers, b \in Objs : RowAddBlock(c, b)
    \/ \E c \in Containers, b \in Objs : ColAddBlock(c, b)
    \/ \E c \in Containers, b \in Objs : CardAddBlock(c, b)

SpecAttach == InitAttach /\ [][NextAttach]_vars

\* SpecScan: d1 = Document() already holds up to MaxScanLen distinct blocks,
\* row already holds hN; the client goes on adding to d1.
ScanLeaves == {"hA", "hB", "hC", "hS", "h5", "h6", "p", "row"}

ScanObjs == ScanLeaves \cup {"d1", "toc", "hN"}

\* The lists of distinct elements of S no longer than n.
DistinctSeqs(S, n) ==
    UNION {{s \in [1..k -> S] : \A i, j \in 1..k : s[i] = s[j] => i = j} : k \in 0..n}

InitScan ==
    \E s \in DistinctSeqs(ScanLeaves, MaxScanLen) :
        Constructed(ScanObjs, [d \in {"d1"} |-> FALSE], [d \in {"d1"} |-> None],
                    [c \in {"d1", "row"} |-> IF c = "d1" THEN s ELSE <<"hN">>],
                    MaxScanOps)

NextScan == \E b \in Objs : DocumentAddBlock("d1", b)

SpecScan == InitScan /\ [][NextScan]_vars

\* ---------------------------------------------------------------- other calls

\* The record of a call other than add_block and Document.save.
Called(op, d, b, out, sv, pre) ==
    [op |-> op, target |-> d, arg |-> b, hook |-> out.hook,
     appended |-> out.appended, saved |-> out.saved, opened |-> sv.opened,
     wrote |-> sv.wrote, result |-> out.result, pre |-> pre,
     prefiles |-> files, pretoc |-> document_blocks,
     predocs |-> Docs, precurrent |-> current_document,
     preblocks |-> blocks]

NoAdd == [hook |-> "none", appended |-> FALSE, saved |-> FALSE, result |-> "ok"]

\* ---------------------------------------------------------------- render()

\* b.render() called by the client: the tokens are returned, or the call
\* raises; nothing is assigned.
RenderCall(b) ==
    LET raises == RenderRaises(blocks, document_blocks, b) IN
    /\ left > 0
    /\ left' = left - 1
    /\ retval' = IF raises THEN <<>> ELSE Render(blocks, document_blocks, b)
    /\ lastOp' = Called("render", b, None,
                        [NoAdd EXCEPT !.result =
                            IF ~raises THEN "ok"
                            ELSE IF Cyclic(blocks, b) THEN "RecursionError"
                            ELSE "AttributeError"],
                        NoSave, <<>>)
    /\ UNCHANGED <<title, autosave, destination, theme, custom_css, blocks,
                   document_blocks, hooks, files, writes, current_document>>

\* SpecRender: d1 = Document(), row = Row(), col = Col(), cardT =
\* Card("T", "body"), hA = H1("A"), toc = TOC(); the client has already
\* called col.add_block(hA).
RenderObjs == {"d1", "row", "col", "cardT", "hA", "toc"}

InitRender ==
    Constructed(RenderObjs, [d \in {"d1"} |-> FALSE], [d \in {"d1"} |-> None],
                [Empty(RenderObjs) EXCEPT !["col"] = <<"hA">>], MaxRenderOps)

NextRender ==
    \/ \E d \in Docs, b \in Objs : DocumentAddBlock(d, b)
    \/ \E c \in Containers, b \in Objs : RowAddBlock(c, b)
    \/ \E c \in Containers, b \in Objs : ColAddBlock(c, b)
    \/ \E c \in Containers, b \in Objs : CardAddBlock(c, b)
    \/ \E b \in Objs : RenderCall(b)

SpecRender == InitRender /\ [][NextRender]_vars


\* SpecTheme: d1 = Document(destination=StoredPath, theme=.., custom_css=..),
\* hA = H1("A"), p = Paragraph("hi").
ThemeObjs == {"d1", "hA", "p"}

\* Theme names a client passes: the presets, a preset in another case, and
\* a name that is no preset.
ThemeNames == {"default", "dark", "Dark", "solarized"}

\* Values of custom_css a client passes.
CustomTexts == {None, "", "h1 { color: red; }"}

InitTheme ==
    \E t \in ThemeNames, c \in CustomTexts :
        ConstructedDocuments(ThemeObjs,
            [d \in {"d1"} |-> [DefaultDocument EXCEPT !.destination = StoredPath,
                                                      !.theme = t, !.custom_css = c]],
            Empty(ThemeObjs), MaxThemeOps)

NextTheme ==
    \/ \E d \in Docs, b \in Objs : DocumentAddBlock(d, b)
    \/ \E b \in Objs : RenderCall(b)
    \/ \E d \in Docs, x \in {None, ExplicitPath} : Save(d, x)

SpecTheme == InitTheme /\ [][NextTheme]_vars

\* ---------------------------------------------------------------- the registry

\* The Documents get_current_document constructs, in the order it does.
NewDocument == IF "g1" \notin Docs THEN "g1" ELSE "g2"

\* A getter that constructs and installs a Document on every call.
GetCurrentDocumentAlwaysNew(cur, new) == [doc |-> new, constructed |-> TRUE]

\* get_current_document() with _current_document = cur: the Document it
\* returns, and whether it constructed (and installed) it.
GetCurrentDocumentOutcome(cur, new) ==
    IF cur = None THEN [doc |-> new, constructed |-> TRUE]
    ELSE [doc |-> cur, constructed |-> FALSE]

\* The attribute map f once the Document of g exists with attribute v.
WithDocument(f, g, v) == IF g.constructed THEN f @@ (g.doc :> v) ELSE f

\* The state of the Documents and of the global after get_current_document
\* with outcome g.
Got(g) ==
    /\ g.constructed => g.doc \notin Docs
    /\ title' = WithDocument(title, g, DefaultDocument.title)
    /\ autosave' = WithDocument(autosave, g, DefaultDocument.autosave)
    /\ destination' = WithDocument(destination, g, DefaultDocument.destination)
    /\ theme' = WithDocument(theme, g, DefaultDocument.theme)
    /\ custom_css' = WithDocument(custom_css, g, DefaultDocument.custom_css)
    /\ current_document' = g.doc

\* set_current_document(d)
SetCurrentDocument(d) ==
    /\ left > 0
    /\ left' = left - 1
    /\ current_document' = d
    /\ lastOp' = Called("set_current_document", None, d, NoAdd, NoSave, <<>>)
    /\ retval' = <<>>
    /\ UNCHANGED <<title, autosave, destination, theme, custom_css, blocks,
                   document_blocks, hooks, files, writes>>

\* get_current_document()
GetCurrentDocument ==
    LET g == GetCurrentDocumentOutcome(current_document, NewDocument) IN
    /\ left > 0
    /\ left' = left - 1
    /\ Got(g)
    /\ blocks' = WithDocument(blocks, g, <<>>)
    /\ hooks' = WithDocument(hooks, g, 0)
    /\ lastOp' = Called("get_current_document", g.doc, None, NoAdd, NoSave, <<>>)
    /\ retval' = <<g.doc>>
    /\ UNCHANGED <<document_blocks, files, writes>>

\* h1(..), h2(..), paragraph(..), row(), ...: get_current_document(), then
\* the Document method of the same name, which constructs the block b and
\* calls add_block.  b is an object no earlier call has constructed; the
\* functions return nothing.
ConvenienceAdd(b) ==
    LET g == GetCurrentDocumentOutcome(current_document, NewDocument)
        bl0 == WithDocument(blocks, g, <<>>)
        out == DocumentAdd(bl0, g.doc, b)
    IN /\ left > 0
       /\ left' = left - 1
       /\ ClassOf(b) \notin {"Document", "TOC"}
       /\ hooks[b] = 0 /\ Occurrences(blocks, b) = 0
       /\ Got(g)
       /\ blocks' = out.blocks
       /\ document_blocks' = out.document_blocks
       /\ hooks' = [WithDocument(hooks, g, 0) EXCEPT
                       ![b] = IF out.hook = "ok" THEN @ + 1 ELSE @]
       /\ files' = out.save.files
       /\ writes' = out.save.writes
       /\ lastOp' = Called("convenience", g.doc, b, out, out.save, bl0[g.doc])
       /\ retval' = <<>>

\* save(x): get_current_document().save(x)
ConvenienceSave(x) ==
    LET g == GetCurrentDocumentOutcome(current_document, NewDocument)
        bl0 == WithDocument(blocks, g, <<>>)
        sv == SaveOutcome(bl0, document_blocks, files, writes, g.doc, x, "save")
    IN /\ left > 0
       /\ left' = left - 1
       /\ Got(g)
       /\ blocks' = bl0
       /\ hooks' = WithDocument(hooks, g, 0)
       /\ files' = sv.files
       /\ writes' = sv.writes
       /\ lastOp' = Called("convenience_save", g.doc, x,
                           [NoAdd EXCEPT !.saved = TRUE, !.result = sv.err], sv,
                           bl0[g.doc])
       /\ retval' = <<>>
       /\ UNCHANGED document_blocks

\* SpecRegistry: d1 = Document("Q3", StoredPath, autosave=.., theme="dark");
\* hA, hB, p are the blocks that h1("A"), h2("B"), paragraph("hi") construct.
RegistryObjs == {"d1", "hA", "hB", "p"}

InitRegistry ==
    \E a \in BOOLEAN :
        ConstructedDocuments(RegistryObjs,
            [d \in {"d1"} |-> [title |-> "Q3", destination |-> StoredPath,
                               autosave |-> a, theme |-> "dark",
                               custom_css |-> None]],
            Empty(RegistryObjs), MaxRegistryOps)

NextRegistry ==
    \/ \E d \in Docs \cup {None} : SetCurrentDocument(d)
    \/ GetCurrentDocument
    \/ \E b \in Objs : ConvenienceAdd(b)
    \/ \E x \in {None, ExplicitPath} : ConvenienceSave(x)

SpecRegistry == InitRegistry /\ [][NextRegistry]_vars

\* ---------------------------------------------------------------- claims

\* A file holding exactly the render of Document d.
Holds(p, d) == files[p] = [exists |-> TRUE, data |-> Render(blocks, document_blocks, d)]

LastAddOn(class) == lastOp.op = "add" /\ ClassOf(lastOp.target) = class

\* C1: every Document.add_block is all-or-nothing: it either returns with
\* the block appended (and, under autosave, the destination holding the full
\* render), or raises with the top-level sequence exactly as before the call.
C1_AddAllOrNothing ==
    LastAddOn("Document") =>
        IF lastOp.result = "ok"
        THEN /\ blocks[lastOp.target] = Append(lastOp.pre, lastOp.arg)
             /\ autosave[lastOp.target] => Holds(destination[lastOp.target], lastOp.target)
        ELSE blocks[lastOp.target] = lastOp.pre

\* C2: after any sequence of add operations every block occurs at most once
\* across all block sequences, no container is reachable from itself, and
\* the attach hook of every attached block has run exactly once.
C2_ExclusiveOwnership ==
    /\ \A b \in Objs : Occurrences(blocks, b) <= 1
    /\ \A c \in Containers : c \notin Descendants(blocks, c)
    /\ \A b \in Objs : Occurrences(blocks, b) >= 1 => hooks[b] = 1

\* C3: with autosave and a stored destination, after any add that completes
\* on the Document or on a container inside it, the destination file holds
\* the render of the current tree (stated for the trees render() accepts).
C3_AutosavePersistsEveryMutation ==
    \A d \in Docs :
        ( /\ autosave[d] /\ destination[d] # None
          /\ lastOp.op = "add" /\ lastOp.result = "ok"
          /\ lastOp.target \in {d} \cup Descendants(blocks, d)
          /\ ~RenderRaises(blocks, document_blocks, d) )
        => Holds(destination[d], d)

\* C5: a save that raises leaves every file as it was before the call; a
\* save that returns leaves the destination holding exactly render().
C5_SaveAtomic ==
    lastOp.saved =>
        IF lastOp.result = "ok"
        THEN Holds(lastOp.opened, lastOp.target)
        ELSE files = lastOp.prefiles

\* The writes Document d made from add_block.
AutosaveWrites(d) == SelectSeq(writes, LAMBDA w : w.doc = d /\ w.by = "add")

\* C4: with autosave and a stored destination, the adds to the Document that
\* return have each made one write to the destination, in add order; the
\* k-th write was made with exactly the first k top-level blocks in the
\* sequence and holds the render of the tree at that moment.
C4_AutosaveWritesPerAdd ==
    \A d \in Docs :
        (autosave[d] /\ destination[d] # None) =>
            LET W == AutosaveWrites(d) IN
            /\ Len(W) <= Len(blocks[d])
            /\ \A k \in 1..Len(W) :
                  /\ W[k].path = destination[d]
                  /\ W[k].n = k
                  /\ W[k].top = SubSeq(blocks[d], 1, k)
            /\ (lastOp.op = "add" /\ lastOp.target = d /\ lastOp.result = "ok") =>
                  /\ lastOp.wrote
                  /\ Len(W) = Len(blocks[d])
                  /\ Len(W) = Len(lastOp.pre) + 1
                  /\ W[Len(W)].data = Render(blocks, document_blocks, d)
                  /\ Holds(destination[d], d)

\* Three adds on an autosave Document with a stored destination, three writes.
C4_Witness ==
    \E d \in Docs :
        /\ autosave[d] /\ destination[d] # None
        /\ lastOp.op = "add" /\ lastOp.target = d /\ lastOp.result = "ok"
        /\ Len(blocks[d]) = 3
        /\ Len(AutosaveWrites(d)) = 3
        /\ AutosaveWrites(d)[2].top = SubSeq(blocks[d], 1, 2)

\* The argument save was called with: the client's, or None from add_block.
SaveArg == IF lastOp.op = "save" THEN lastOp.arg ELSE None

\* C6: save writes to the explicit argument if given, else to the stored
\* destination; with neither it fails with MissingDestination and touches no
\* file; with a destination it never fails for lack of one, touches that
\* path only, and returns, with the file holding the render, whenever
\* render() does.
C6_SaveDestination ==
    lastOp.saved =>
        LET d == lastOp.target
            want == IF SaveArg # None THEN SaveArg ELSE destination[d]
        IN IF want = None
           THEN /\ lastOp.result = "MissingDestination"
                /\ lastOp.opened = None /\ ~lastOp.wrote
                /\ files = lastOp.prefiles
           ELSE /\ lastOp.result # "MissingDestination"
                /\ lastOp.opened = want
                /\ \A p \in Paths \ {want} : files[p] = lastOp.prefiles[p]
                /\ lastOp.result = "ok" <=> ~RenderRaises(blocks, document_blocks, d)
                /\ lastOp.result = "ok" => lastOp.wrote /\ Holds(want, d)

\* save(ExplicitPath) on a Document with no stored destination has written
\* the explicit path.
C6_Witness ==
    /\ lastOp.op = "save" /\ lastOp.arg = ExplicitPath
    /\ destination[lastOp.target] = None
    /\ blocks[lastOp.target] # <<>>
    /\ lastOp.result = "ok"
    /\ Holds(ExplicitPath, lastOp.target)
    /\ ~files[StoredPath].exists

\* C7: add_block(document) raises InvalidOperation on every container and
\* leaves its sequence unchanged; no sequence ever holds a Document.
C7_DocumentNeverChild ==
    /\ (lastOp.op = "add" /\ ClassOf(lastOp.arg) = "Document") =>
          /\ lastOp.hook = "InvalidOperation"
          /\ lastOp.result = "InvalidOperation"
          /\ ~lastOp.appended
          /\ blocks[lastOp.target] = lastOp.pre
    /\ \A c \in Containers : \A i \in 1..Len(blocks[c]) : ClassOf(blocks[c][i]) # "Document"

\* A Col that already holds a block has refused a Document.
C7_Witness ==
    /\ lastOp.op = "add" /\ ClassOf(lastOp.arg) = "Document"
    /\ ClassOf(lastOp.target) = "Col"
    /\ lastOp.pre # <<>>
    /\ lastOp.result = "InvalidOperation"
    /\ blocks[lastOp.target] = lastOp.pre

\* C8: adding a TOC to a Row, Col or Card raises InvalidPlacement, leaves
\* the sequence unchanged and binds nothing (a TOC no Document holds has no
\* back-reference); adding it to a Document passes the hook, appends it and
\* binds its back-reference to that Document's list.  A TOC is only ever at
\* the top level of a Document.
C8_TOCPlacement ==
    /\ (lastOp.op = "add" /\ ClassOf(lastOp.arg) = "TOC"
            /\ ClassOf(lastOp.target) \in {"Row", "Col", "Card"}) =>
          /\ lastOp.result = "InvalidPlacement"
          /\ ~lastOp.appended
          /\ blocks[lastOp.target] = lastOp.pre
          /\ document_blocks = lastOp.pretoc
    /\ (lastOp.op = "add" /\ ClassOf(lastOp.arg) = "TOC"
            /\ ClassOf(lastOp.target) = "Document") =>
          /\ lastOp.hook = "ok"
          /\ lastOp.appended
          /\ blocks[lastOp.target] = Append(lastOp.pre, lastOp.arg)
          /\ document_blocks[lastOp.arg] = [kind |-> "ref", of |-> lastOp.target, seq |-> <<>>]
          /\ lastOp.result # "InvalidPlacement"
          /\ ~autosave[lastOp.target] => lastOp.result = "ok"
    /\ \A t \in TOCs :
          /\ (\A d \in Docs : t \notin Range(blocks[d])) => document_blocks[t] = NoRef
          /\ \A c \in Containers : t \in Range(blocks[c]) => ClassOf(c) = "Document"

\* A TOC bound to a Document has been refused by a Card.
C8_Witness ==
    /\ lastOp.op = "add" /\ ClassOf(lastOp.arg) = "TOC"
    /\ ClassOf(lastOp.target) = "Card"
    /\ lastOp.result = "InvalidPlacement"
    /\ \E d \in Docs : /\ blocks[d] = <<lastOp.arg>>
                       /\ document_blocks[lastOp.arg].kind = "ref"
                       /\ document_blocks[lastOp.arg].of = d

\* C9: a TOC that is bound scans the list of its Document as it is now: its
\* headers are the heading scan of the current top-level sequence of the
\* Document whose add_block bound it last (the one Document holding it, when
\* only one does), so an H1, H2 or H3 added to that Document later is among
\* them.
C9_TOCLiveReference ==
    /\ \A t \in TOCs :
          document_blocks[t].kind # "none" =>
              /\ document_blocks[t].of \in Docs
              /\ t \in Range(blocks[document_blocks[t].of])
              /\ TOCHeaders(blocks, document_blocks, t) = HeadingScan(blocks[document_blocks[t].of])
              /\ \A d \in Docs :
                    (t \in Range(blocks[d]) /\ \A e \in Docs \ {d} : t \notin Range(blocks[e]))
                    => document_blocks[t].of = d
    /\ (LastAddOn("Document") /\ lastOp.appended /\ ClassOf(lastOp.arg) \in {"H1", "H2", "H3"}) =>
          \A t \in TOCs :
              (document_blocks[t].kind # "none" /\ document_blocks[t].of = lastOp.target) =>
                  \E i \in 1..Len(TOCHeaders(blocks, document_blocks, t)) :
                      TOCHeaders(blocks, document_blocks, t)[i][2] = TextOf(lastOp.arg)

\* The TOC was added first, H1("A") after it, and the TOC lists "A".
C9_Witness ==
    /\ blocks["d1"] = <<"toc", "hA">>
    /\ lastOp.op = "add" /\ lastOp.arg = "hA" /\ lastOp.target = "d1"
    /\ TOCHeaders(blocks, document_blocks, "toc") = <<<<1, "A">>>>

\* The level of a heading class, 0 for every other class.
LevelOf(b) ==
    CASE ClassOf(b) = "H1" -> 1 [] ClassOf(b) = "H2" -> 2 [] ClassOf(b) = "H3" -> 3
      [] ClassOf(b) = "H4" -> 4 [] ClassOf(b) = "H5" -> 5 [] ClassOf(b) = "H6" -> 6
      [] OTHER -> 0

\* hs lists, in order and once each, the positions of s that hold a heading
\* of level 1, 2 or 3, as (level, text).
ListsTopHeadings(hs, s) ==
    LET idx == {i \in 1..Len(s) : LevelOf(s[i]) \in 1..3}
        nth(k) == CHOOSE i \in idx : Cardinality({j \in idx : j < i}) = k - 1
    IN /\ Len(hs) = Cardinality(idx)
       /\ \A k \in 1..Len(hs) : hs[k] = <<LevelOf(s[nth(k)]), TextOf(s[nth(k)])>>

\* C10: over any top-level sequence the TOC collects exactly the (level,
\* text) of the top-level H1, H2 and H3 blocks, in order, one entry each;
\* H4-H6, other blocks and headings inside a Row contribute nothing.
C10_TOCCollectsH1toH3 ==
    /\ \A d \in Docs : ListsTopHeadings(HeadingScan(blocks[d]), blocks[d])
    /\ \A t \in TOCs :
          document_blocks[t].kind # "none" =>
              ListsTopHeadings(TOCHeaders(blocks, document_blocks, t), blocks[document_blocks[t].of])

\* H1("A"), H4("skip"), H2("B"), H3("C") and then the TOC.
C10_Witness ==
    /\ blocks["d1"] = <<"hA", "hS", "hB", "hC", "toc">>
    /\ TOCHeaders(blocks, document_blocks, "toc") = <<<<1, "A">>, <<2, "B">>, <<3, "C">>>>

\* A Row holding H1("N") is at the top level beside H2("B"); only "B" is listed.
C10_WitnessNested ==
    /\ "row" \in Range(blocks["d1"]) /\ blocks["row"] = <<"hN">>
    /\ "toc" \in Range(blocks["d1"])
    /\ TOCHeaders(blocks, document_blocks, "toc") = <<<<2, "B">>>>

\* The module-level calls that go through get_current_document.
ThroughGetter == {"get_current_document", "convenience", "convenience_save"}

\* C11: the registry holds None or one Document, None at start.  A call
\* that goes through get_current_document while the registry is empty
\* constructs a Document with title "My Report", no destination, the default
\* theme and no blocks, and installs it; while the registry holds d the call
\* works on d and constructs nothing; set_current_document(d) installs d.
\* A convenience function appends its block at the end of the current
\* Document, nowhere else, and saves as Document.add_block does under
\* autosave.
C11_GlobalRegistry ==
    /\ current_document \in Docs \cup {None}
    /\ lastOp.op = "init" => current_document = None
    /\ lastOp.op = "set_current_document" => current_document = lastOp.arg
    /\ lastOp.op \in ThroughGetter =>
          /\ lastOp.target \in Docs
          /\ current_document = lastOp.target
          /\ IF lastOp.precurrent = None
             THEN /\ lastOp.target \notin lastOp.predocs
                  /\ Docs = lastOp.predocs \cup {lastOp.target}
                  /\ title[lastOp.target] = "My Report"
                  /\ destination[lastOp.target] = None
                  /\ theme[lastOp.target] = "default"
                  /\ lastOp.pre = <<>>
             ELSE /\ lastOp.target = lastOp.precurrent
                  /\ Docs = lastOp.predocs
    /\ lastOp.op = "get_current_document" =>
          /\ retval = <<current_document>>
          /\ lastOp.precurrent = None => blocks[lastOp.target] = <<>>
    /\ lastOp.op = "convenience" =>
          /\ lastOp.result = "ok"
          /\ blocks[lastOp.target] = Append(lastOp.pre, lastOp.arg)
          /\ Occurrences(blocks, lastOp.arg) = 1
          /\ lastOp.saved = autosave[lastOp.target]
          /\ lastOp.saved => Holds(destination[lastOp.target], lastOp.target)
          /\ ~lastOp.saved => files = lastOp.prefiles

\* Two convenience calls in a row on the Document the first one constructed.
C11_Witness ==
    /\ lastOp.op = "convenience"
    /\ lastOp.precurrent = "g1"
    /\ blocks["g1"] = <<"hA", "p">>
    /\ title["g1"] = "My Report"

\* The concatenation of a sequence of token sequences.
RECURSIVE Concat(_)
Concat(ss) == IF ss = <<>> THEN <<>> ELSE Head(ss) \o Concat(Tail(ss))

\* The render() of every child of c, in insertion order.
ChildRenders(c) ==
    [i \in 1..Len(blocks[c]) |-> Render(blocks, document_blocks, blocks[c][i])]

\* The markup of c around no children.
Wrapper(c) == Render([blocks EXCEPT ![c] = <<>>], document_blocks, c)

\* C12: whenever render() of a container returns, its output is the
\* container's wrapper markup with the concatenation of the children's own
\* render() outputs, in insertion order, placed inside; and a render() call
\* changes no block sequence and no TOC, so that rendering again returns the
\* same tokens.
C12_RenderCompositional ==
    /\ \A c \in Containers :
          ~RenderRaises(blocks, document_blocks, c) =>
             \E k \in 1..(Len(Wrapper(c)) - 1) :
                Render(blocks, document_blocks, c)
                   = SubSeq(Wrapper(c), 1, k) \o Concat(ChildRenders(c))
                     \o SubSeq(Wrapper(c), k + 1, Len(Wrapper(c)))
    /\ lastOp.op = "render" =>
          /\ blocks = lastOp.preblocks
          /\ document_blocks = lastOp.pretoc
          /\ lastOp.result = "ok" =>
                retval = Render(blocks, document_blocks, lastOp.target)
          /\ lastOp.result # "ok" =>
                RenderRaises(blocks, document_blocks, lastOp.target)

\* The Document rendered with two children, one of them holding a child.
C12_Witness ==
    /\ lastOp.op = "render"
    /\ lastOp.target = "d1"
    /\ blocks["d1"] = <<"col", "cardT">>
    /\ retval = <<"<html><title>", "My Report", "</title><style>", "css:default", "",
                  "</style><body>", "<div class=col>", "<h1>", "A", "</h1>", "</div>",
                  "<div class=card>", "<h3>", "T", "</h3>", "body", "</div>",
                  "</body></html>">>

\* The tokens of a rendered Document between <style> and </style>.
StyleBlock(html) ==
    LET from == CHOOSE i \in 1..Len(html) : html[i] = "</title><style>"
        to == CHOOSE i \in 1..Len(html) : html[i] = "</style><body>"
    IN SubSeq(html, from + 1, to - 1)

\* The style block the Document d is to have.
ExpectedStyle(d) ==
    << IF theme[d] = "default" THEN THEMES["default"]
       ELSE IF theme[d] = "dark" THEN THEMES["dark"]
       ELSE THEMES["default"],
       IF custom_css[d] = None THEN "" ELSE custom_css[d] >>

\* C13: render() of a Document returns whatever its theme name is, and in
\* its output, as in every file save writes, the style block is the CSS of
\* the preset named by the theme ("default" or "dark"), or of the "default"
\* preset for any other name, followed by the custom CSS, empty if unset.
C13_ThemeFallback ==
    /\ lastOp.op = "render" /\ ClassOf(lastOp.target) = "Document" =>
          /\ lastOp.result = "ok"
          /\ StyleBlock(retval) = ExpectedStyle(lastOp.target)
    /\ lastOp.op \in {"save", "add"} /\ lastOp.wrote =>
          StyleBlock(files[lastOp.opened].data) = ExpectedStyle(lastOp.target)

\* A Document with an unknown theme name and custom CSS, rendered.
C13_Witness ==
    /\ lastOp.op = "render"
    /\ lastOp.target = "d1"
    /\ theme["d1"] = "solarized"
    /\ custom_css["d1"] = "h1 { color: red; }"
    /\ StyleBlock(retval) = <<"css:default", "h1 { color: red; }">>
    /\ blocks["d1"] = <<"hA">>

====
